---- MODULE Spec2Model ----
(***************************************************************************)
(* GammaOption: the gamma exposure engine (src/gamma_engine.py) and the    *)
(* application objects that share one engine instance.                     *)
(*                                                                         *)
(* A DataFrame is a sequence of rows (records); its index after            *)
(* reset_index is the position in the sequence.  Prices, strikes and       *)
(* gammas are integers; the +-1% window of the gamma flip is compared in   *)
(* exact arithmetic (strike * 100 >= current_price * 99), where the code   *)
(* compares binary floating point products.                                *)
(***************************************************************************)
EXTENDS Integers, Sequences, FiniteSets, TLC

VARIABLES
    self_levels,        \* GammaEngine.levels
    self_regime,        \* GammaEngine.regime
    frames,             \* the running invocations of process_options_data
    top_levels_count,   \* config.top_levels_count
    conditions,         \* AlertSystem.conditions
    alert_history,      \* AlertSystem.alert_history
    alert_ret,          \* what the last check_all_conditions returned
    alert_call,         \* the last call on the AlertSystem and its arguments
    check_call,         \* the last AlertCondition.check: arguments and result
    api_ret,            \* what the serverless calculate_gamma_levels returned
    spread,             \* SPXtoESConverter.spread
    spread_timestamp,   \* SPXtoESConverter.spread_timestamp (its day)
    spread_cache_file,  \* the content of daily_spread.json
    today,              \* datetime.now().date()
    converter_ret,      \* the last call on the converter and its result
    current_data,       \* GammaScheduler.current_data
    job_log             \* the last job of the scheduler and how it ended

engine_vars == <<self_levels, self_regime, frames>>
config_vars == <<top_levels_count>>
alert_vars == <<conditions, alert_history, alert_ret, alert_call>>
check_vars == <<check_call>>
api_vars == <<api_ret>>
converter_vars ==
    <<spread, spread_timestamp, spread_cache_file, today, converter_ret>>
scheduler_vars == <<current_data, job_log>>
component_vars == <<check_vars, api_vars, converter_vars, scheduler_vars>>

vars == <<engine_vars, config_vars, alert_vars, component_vars>>

(***************************************************************************)
(* Bounds of the explored inputs.                                          *)
(***************************************************************************)
MaxRows == 3        \* rows of a table, one application of the pipeline
MaxSeqRows == 1     \* rows of a table, repeated calls on one engine
MaxConcRows == 1    \* rows of a table, two interleaved calls
MaxTopCount == 2    \* largest config.top_levels_count explored
MaxAbsentRows == 2  \* rows of a table with absent fields
MaxAlerts == 2      \* check_all_conditions runs while alert_history is shorter
MaxConditions == 1  \* conditions a caller adds with add_condition
MaxDay == 2         \* the last day the clock reaches
MaxJobRows == 1     \* rows of a table get_0dte_options returns
MaxApiRows == 2     \* rows of a table given to both implementations

Strikes == {99, 100, 101}
Prices == {99, 100, 101}
Types == {"call", "put"}
\* the (open_interest, gamma) of a quote; dealer gamma 0, -100 and -200
Quotes ==
    {[open_interest |-> 2, gamma |-> 0], [open_interest |-> 1, gamma |-> 1],
     [open_interest |-> 1, gamma |-> 2]}
Volumes == {1}

Threads == {1, 2}

(***************************************************************************)
(* Values.                                                                 *)
(***************************************************************************)
\* the floating point not-a-number of an absent numeric field
NaN == -999
None == -998                    \* Python's None where a number may stand
Now == 0                        \* datetime.now()

Abs(x) == IF x < 0 THEN -x ELSE x

\* an empty dict
EmptyLevels == [k \in {} |-> 0]

\* an empty DataFrame
EmptyDf == <<>>

ContractRows ==
    {[strike |-> s, type |-> ty, open_interest |-> q.open_interest,
      gamma |-> q.gamma, volume |-> v] :
        s \in Strikes, ty \in Types, q \in Quotes, v \in Volumes}

\* the tables of at most n rows drawn from rows
TablesOf(rows, n) == UNION {[1..k -> rows] : k \in 0..n}

TablesUpTo(n) == UNION {[1..k -> ContractRows] : k \in 0..n}

(***************************************************************************)
(* GammaEngine.calculate_dealer_gamma                                      *)
(***************************************************************************)
\* df['gamma'].fillna(0)
fillna(x) == IF x = NaN THEN 0 ELSE x

\* lambda row: -row['open_interest'] * row['gamma'] * 100
dealer_gamma(open_interest, gamma) ==
    IF open_interest = NaN \/ gamma = NaN THEN NaN
    ELSE (-open_interest) * gamma * 100

calculate_dealer_gamma(df) ==
    IF df = EmptyDf \/ "gamma" \notin DOMAIN df[1] THEN df
    ELSE [i \in 1..Len(df) |->
            LET row == df[i]
                g == fillna(row.gamma)
                dg == dealer_gamma(row.open_interest, g)
            IN  [strike |-> row.strike, type |-> row.type,
                 open_interest |-> row.open_interest, gamma |-> g,
                 volume |-> row.volume,
                 dealer_gamma |-> dg,
                 call_gamma |-> IF row.type = "call" THEN dg ELSE 0,
                 put_gamma |-> IF row.type = "put" THEN dg ELSE 0]]

(***************************************************************************)
(* GammaEngine.aggregate_by_strike                                         *)
(***************************************************************************)
RECURSIVE SumFrom(_, _, _, _)
\* the 'sum' of column col over the rows of group s, from row i on; a NaN
\* cell is skipped
SumFrom(df, s, col, i) ==
    IF i > Len(df) THEN 0
    ELSE (IF df[i].strike = s /\ df[i][col] # NaN THEN df[i][col] ELSE 0)
         + SumFrom(df, s, col, i + 1)

\* a last-value-wins aggregation (rows of a strike overwrite each other)
GroupLast(df, s, col) ==
    LET idx == {i \in 1..Len(df) : df[i].strike = s}
        last == CHOOSE i \in idx : \A j \in idx : j <= i
    IN  IF df[last][col] = NaN THEN 0 ELSE df[last][col]

GroupSum(df, s, col) == SumFrom(df, s, col, 1)

RECURSIVE SortAsc(_)
\* the group keys in ascending order
SortAsc(S) ==
    IF S = {} THEN <<>>
    ELSE LET m == CHOOSE x \in S : \A y \in S : x <= y
         IN  <<m>> \o SortAsc(S \ {m})

\* the columns groupby('strike').agg sums
aggregate_columns ==
    {"dealer_gamma", "call_gamma", "put_gamma", "volume", "open_interest"}

\* agg raises KeyError when a column it is to sum is not in the table
aggregate_by_strike_raises(df) ==
    df # EmptyDf /\ ~(aggregate_columns \subseteq DOMAIN df[1])

\* the aggregate with net_gamma taken from the call side only
aggregate_by_strike_net_call(df) ==
    IF df = EmptyDf THEN df
    ELSE LET keys == SortAsc({df[i].strike : i \in 1..Len(df)} \ {NaN})
         IN  [k \in 1..Len(keys) |->
                LET s == keys[k]
                    cg == GroupSum(df, s, "call_gamma")
                    pg == GroupSum(df, s, "put_gamma")
                IN  [strike |-> s,
                     dealer_gamma |-> GroupSum(df, s, "dealer_gamma"),
                     call_gamma |-> cg,
                     put_gamma |-> pg,
                     volume |-> GroupSum(df, s, "volume"),
                     open_interest |-> GroupSum(df, s, "open_interest"),
                     net_gamma |-> cg]]

RECURSIVE FirstAppearance(_, _)
\* the strikes of rows i.. of df that are not in seen, in the order of the rows
FirstAppearance(df, seen) ==
    IF df = <<>> THEN <<>>
    ELSE IF Head(df).strike \in seen THEN FirstAppearance(Tail(df), seen)
         ELSE <<Head(df).strike>>
              \o FirstAppearance(Tail(df), seen \cup {Head(df).strike})

\* the aggregate with groupby(sort=False) and without sort_values: the
\* groups in the order their strike first appears in the table
aggregate_by_strike_unsorted(df) ==
    IF df = EmptyDf THEN df
    ELSE LET keys == FirstAppearance(df, {NaN})
         IN  [k \in 1..Len(keys) |->
                LET s == keys[k]
                    cg == GroupSum(df, s, "call_gamma")
                    pg == GroupSum(df, s, "put_gamma")
                IN  [strike |-> s,
                     dealer_gamma |-> GroupSum(df, s, "dealer_gamma"),
                     call_gamma |-> cg,
                     put_gamma |-> pg,
                     volume |-> GroupSum(df, s, "volume"),
                     open_interest |-> GroupSum(df, s, "open_interest"),
                     net_gamma |-> cg + pg]]

aggregate_by_strike(df) ==
    IF df = EmptyDf THEN df
    ELSE LET keys == SortAsc({df[i].strike : i \in 1..Len(df)} \ {NaN})
         IN  [k \in 1..Len(keys) |->
                LET s == keys[k]
                    cg == GroupSum(df, s, "call_gamma")
                    pg == GroupSum(df, s, "put_gamma")
                IN  [strike |-> s,
                     dealer_gamma |-> GroupSum(df, s, "dealer_gamma"),
                     call_gamma |-> cg,
                     put_gamma |-> pg,
                     volume |-> GroupSum(df, s, "volume"),
                     open_interest |-> GroupSum(df, s, "open_interest"),
                     net_gamma |-> cg + pg]]

(***************************************************************************)
(* GammaEngine.identify_key_levels                                         *)
(***************************************************************************)
\* the last position of the largest absolute value
idxmax_abs_last(df, col) ==
    CHOOSE i \in 1..Len(df) :
        /\ \A j \in 1..Len(df) : Abs(df[j][col]) <= Abs(df[i][col])
        /\ \A j \in (i + 1)..Len(df) : Abs(df[j][col]) < Abs(df[i][col])

\* series.abs().idxmax(): the first position of the largest absolute value
idxmax_abs(df, col) ==
    CHOOSE i \in 1..Len(df) :
        /\ \A j \in 1..Len(df) : Abs(df[j][col]) <= Abs(df[i][col])
        /\ \A j \in 1..(i - 1) : Abs(df[j][col]) < Abs(df[i][col])

\* series.idxmax() without the abs()
idxmax_signed(df, col) ==
    CHOOSE i \in 1..Len(df) :
        /\ \A j \in 1..Len(df) : df[j][col] <= df[i][col]
        /\ \A j \in 1..(i - 1) : df[j][col] < df[i][col]

\* series.abs().idxmin(): the first position of the smallest absolute value
idxmin_abs(df, col) ==
    CHOOSE i \in 1..Len(df) :
        /\ \A j \in 1..Len(df) : Abs(df[i][col]) <= Abs(df[j][col])
        /\ \A j \in 1..(i - 1) : Abs(df[i][col]) < Abs(df[j][col])

\* the put wall searched in one filter, strike <= current_price
put_wall_levels_collapsed(df, current_price) ==
    LET put_strikes == SelectSeq(df, LAMBDA r : r.strike <= current_price)
    IN  IF put_strikes = EmptyDf THEN EmptyLevels
        ELSE LET put_wall_idx == idxmax_abs(put_strikes, "put_gamma")
             IN  ("put_wall" :> put_strikes[put_wall_idx].strike)
                 @@ ("put_wall_gamma" :> put_strikes[put_wall_idx].put_gamma)

\* the put wall filled with the price when no strike qualifies
put_wall_levels_default(df, current_price) ==
    LET below == SelectSeq(df, LAMBDA r : r.strike < current_price)
        put_strikes ==
            IF below = EmptyDf
            THEN SelectSeq(df, LAMBDA r : r.strike <= current_price)
            ELSE below
    IN  IF put_strikes = EmptyDf
        THEN ("put_wall" :> current_price) @@ ("put_wall_gamma" :> 0)
        ELSE LET put_wall_idx == idxmax_abs(put_strikes, "put_gamma")
             IN  ("put_wall" :> put_strikes[put_wall_idx].strike)
                 @@ ("put_wall_gamma" :> put_strikes[put_wall_idx].put_gamma)

put_wall_levels(df, current_price) ==
    LET below == SelectSeq(df, LAMBDA r : r.strike < current_price)
        put_strikes ==
            IF below = EmptyDf
            THEN SelectSeq(df, LAMBDA r : r.strike <= current_price)
            ELSE below
    IN  IF put_strikes = EmptyDf THEN EmptyLevels
        ELSE LET put_wall_idx == idxmax_abs(put_strikes, "put_gamma")
             IN  ("put_wall" :> put_strikes[put_wall_idx].strike)
                 @@ ("put_wall_gamma" :> put_strikes[put_wall_idx].put_gamma)

\* the call wall with idxmax() taken on the signed call_gamma
call_wall_levels_signed(df, current_price) ==
    LET above == SelectSeq(df, LAMBDA r : r.strike > current_price)
        call_strikes ==
            IF above = EmptyDf
            THEN SelectSeq(df, LAMBDA r : r.strike >= current_price)
            ELSE above
    IN  IF call_strikes = EmptyDf THEN EmptyLevels
        ELSE LET call_wall_idx == idxmax_signed(call_strikes, "call_gamma")
             IN  ("call_wall" :> call_strikes[call_wall_idx].strike)
                 @@ ("call_wall_gamma" :> call_strikes[call_wall_idx].call_gamma)

\* the call wall searched on the put wall's side of the price
call_wall_levels_below(df, current_price) ==
    LET above == SelectSeq(df, LAMBDA r : r.strike < current_price)
        call_strikes ==
            IF above = EmptyDf
            THEN SelectSeq(df, LAMBDA r : r.strike >= current_price)
            ELSE above
    IN  IF call_strikes = EmptyDf THEN EmptyLevels
        ELSE LET call_wall_idx == idxmax_abs(call_strikes, "call_gamma")
             IN  ("call_wall" :> call_strikes[call_wall_idx].strike)
                 @@ ("call_wall_gamma" :> call_strikes[call_wall_idx].call_gamma)

call_wall_levels(df, current_price) ==
    LET above == SelectSeq(df, LAMBDA r : r.strike > current_price)
        call_strikes ==
            IF above = EmptyDf
            THEN SelectSeq(df, LAMBDA r : r.strike >= current_price)
            ELSE above
    IN  IF call_strikes = EmptyDf THEN EmptyLevels
        ELSE LET call_wall_idx == idxmax_abs(call_strikes, "call_gamma")
             IN  ("call_wall" :> call_strikes[call_wall_idx].strike)
                 @@ ("call_wall_gamma" :> call_strikes[call_wall_idx].call_gamma)

\* the gamma flip searched over every strike, without the window
gamma_flip_levels_unwindowed(df, current_price) ==
    LET near_price == df
    IN  IF near_price = EmptyDf THEN EmptyLevels
        ELSE LET gamma_flip_idx == idxmin_abs(near_price, "net_gamma")
             IN  ("gamma_flip" :> near_price[gamma_flip_idx].strike)
                 @@ ("gamma_flip_value" :> near_price[gamma_flip_idx].net_gamma)

\* the gamma flip with the bounds of the window excluded
gamma_flip_levels_exclusive(df, current_price) ==
    LET near_price ==
            SelectSeq(df, LAMBDA r : /\ r.strike * 100 > current_price * 99
                                     /\ r.strike * 100 < current_price * 101)
    IN  IF near_price = EmptyDf THEN EmptyLevels
        ELSE LET gamma_flip_idx == idxmin_abs(near_price, "net_gamma")
             IN  ("gamma_flip" :> near_price[gamma_flip_idx].strike)
                 @@ ("gamma_flip_value" :> near_price[gamma_flip_idx].net_gamma)

\* strike >= current_price * 0.99 and strike <= current_price * 1.01
gamma_flip_levels(df, current_price) ==
    LET near_price ==
            SelectSeq(df, LAMBDA r : /\ r.strike * 100 >= current_price * 99
                                     /\ r.strike * 100 <= current_price * 101)
    IN  IF near_price = EmptyDf THEN EmptyLevels
        ELSE LET gamma_flip_idx == idxmin_abs(near_price, "net_gamma")
             IN  ("gamma_flip" :> near_price[gamma_flip_idx].strike)
                 @@ ("gamma_flip_value" :> near_price[gamma_flip_idx].net_gamma)

\* the dict identify_key_levels returns
identify_key_levels(df, current_price) ==
    IF df = EmptyDf THEN EmptyLevels
    ELSE put_wall_levels(df, current_price)
         @@ call_wall_levels(df, current_price)
         @@ gamma_flip_levels(df, current_price)

\* identify_key_levels without the store self.levels = levels
identify_key_levels_unstored(levels, df, current_price) == levels

\* identify_key_levels with self.levels.update(levels) for the store
identify_key_levels_merged(levels, df, current_price) ==
    IF df = EmptyDf THEN levels
    ELSE identify_key_levels(df, current_price) @@ levels

\* self.levels after identify_key_levels: the early return on an empty
\* table leaves it as it was
identify_key_levels_self(levels, df, current_price) ==
    IF df = EmptyDf THEN levels
    ELSE identify_key_levels(df, current_price)

(***************************************************************************)
(* GammaEngine.rank_levels                                                 *)
(***************************************************************************)
\* TOP_LEVELS_COUNT, the default of config.top_levels_count
TOP_LEVELS_COUNT == 5

\* df with the row at position i removed
DropAt(df, i) == [k \in 1..(Len(df) - 1) |-> IF k < i THEN df[k] ELSE df[k + 1]]

RECURSIVE nlargest_keep_last(_, _, _)
\* df.nlargest(n, col, keep='last'): equal values in reverse table order
nlargest_keep_last(df, n, col) ==
    IF n <= 0 \/ df = EmptyDf THEN EmptyDf
    ELSE LET i == CHOOSE i \in 1..Len(df) :
                    /\ \A j \in 1..Len(df) : df[j][col] <= df[i][col]
                    /\ \A j \in (i + 1)..Len(df) : df[j][col] < df[i][col]
         IN  <<df[i]>> \o nlargest_keep_last(DropAt(df, i), n - 1, col)

RECURSIVE nlargest(_, _, _)
\* df.nlargest(n, col), keep='first': the n rows of largest col, largest
\* first, equal values in the order of the table
nlargest(df, n, col) ==
    IF n <= 0 \/ df = EmptyDf THEN EmptyDf
    ELSE LET i == CHOOSE i \in 1..Len(df) :
                    /\ \A j \in 1..Len(df) : df[j][col] <= df[i][col]
                    /\ \A j \in 1..(i - 1) : df[j][col] < df[i][col]
         IN  <<df[i]>> \o nlargest(DropAt(df, i), n - 1, col)

rank_levels(df) ==
    IF df = EmptyDf THEN df
    ELSE LET scored == [i \in 1..Len(df) |->
                          [strike |-> df[i].strike,
                           dealer_gamma |-> df[i].dealer_gamma,
                           call_gamma |-> df[i].call_gamma,
                           put_gamma |-> df[i].put_gamma,
                           volume |-> df[i].volume,
                           open_interest |-> df[i].open_interest,
                           net_gamma |-> df[i].net_gamma,
                           score |-> Abs(df[i].net_gamma) * df[i].volume]]
         IN  nlargest(scored, top_levels_count, "score")

(***************************************************************************)
(* GammaEngine.determine_regime                                            *)
(***************************************************************************)
\* determine_regime without the df.empty test
determine_regime_no_empty_test(levels, df, current_price) ==
    IF "gamma_flip" \notin DOMAIN levels THEN "neutral"
    ELSE IF current_price > levels["gamma_flip"] THEN "short_gamma"
         ELSE "long_gamma"

\* determine_regime with current_price >= gamma_flip
determine_regime_at_or_above(levels, df, current_price) ==
    IF df = EmptyDf \/ "gamma_flip" \notin DOMAIN levels THEN "neutral"
    ELSE IF current_price >= levels["gamma_flip"] THEN "short_gamma"
         ELSE "long_gamma"

\* the regime determine_regime returns; levels is self.levels
determine_regime(levels, df, current_price) ==
    IF df = EmptyDf \/ "gamma_flip" \notin DOMAIN levels THEN "neutral"
    ELSE IF current_price > levels["gamma_flip"] THEN "short_gamma"
         ELSE "long_gamma"

\* self.regime after determine_regime: the early return of "neutral" leaves
\* it as it was
determine_regime_self(regime, levels, df, current_price) ==
    IF df = EmptyDf \/ "gamma_flip" \notin DOMAIN levels THEN regime
    ELSE determine_regime(levels, df, current_price)

(***************************************************************************)
(* GammaEngine.process_options_data: one frame per running invocation.     *)
(* pc names the statement the invocation executes next.                    *)
(***************************************************************************)
IdleFrame ==
    [pc |-> "idle", df |-> EmptyDf, current_price |-> 0,
     df_gamma |-> EmptyDf, df_agg |-> EmptyDf, levels |-> EmptyLevels,
     top_levels |-> EmptyDf, regime |-> "unset", ret |-> <<>>]

CalledFrame(df, current_price) ==
    [IdleFrame EXCEPT !.pc = "calculate_dealer_gamma", !.df = df,
                      !.current_price = current_price]

\* a return that hands the ranking back as well
process_options_data_return_with_ranking(df_agg, levels, top_levels, regime) ==
    <<df_agg, levels, top_levels, regime>>

\* return df_agg, levels, regime
process_options_data_return(df_agg, levels, top_levels, regime) ==
    <<df_agg, levels, regime>>

\* Config(): top_levels_count is TOP_LEVELS_COUNT unless the environment
\* sets it
ConfigDefault == top_levels_count = TOP_LEVELS_COUNT

\* no call has been made yet
NoCall == [op |-> "none"]

\* AlertSystem.__init__
AlertSystemInit ==
    /\ conditions = <<>>
    /\ alert_history = <<>>
    /\ alert_ret = <<>>
    /\ alert_call = NoCall

\* SPXtoESConverter.__init__, no daily_spread.json on disk, on day 1
\* daily_spread.json when os.path.exists finds no such file
NoFile ==
    [spread |-> None, timestamp |-> None, spx_price |-> None,
     es_price |-> None, date |-> None]

ConverterInit ==
    /\ spread = None
    /\ spread_timestamp = None
    /\ spread_cache_file = NoFile
    /\ today = 1
    /\ converter_ret = NoCall

\* GammaScheduler.__init__: self.current_data = {}
SchedulerInit ==
    /\ current_data = [k \in {} |-> 0]
    /\ job_log = NoCall

ComponentsInit ==
    /\ check_call = NoCall
    /\ api_ret = NoCall
    /\ ConverterInit
    /\ SchedulerInit

\* GammaEngine.__init__ and no invocation running
Init ==
    /\ self_levels = EmptyLevels
    /\ self_regime = "neutral"
    /\ frames = [t \in Threads |-> IdleFrame]
    /\ ConfigDefault
    /\ AlertSystemInit
    /\ ComponentsInit

\* a caller enters process_options_data(df, current_price)
Call(t, df, current_price) ==
    /\ frames[t].pc = "idle"
    /\ frames' = [frames EXCEPT ![t] = CalledFrame(df, current_price)]
    /\ UNCHANGED <<self_levels, self_regime, config_vars, component_vars, alert_vars>>

\* the whole of process_options_data, run without interruption; each local
\* is bound once, in the order the statements assign it
ProcessOptionsData(t) ==
    /\ frames[t].pc = "calculate_dealer_gamma"
    /\ \E current_price \in {frames[t].current_price} :
       \E df_gamma \in {calculate_dealer_gamma(frames[t].df)} :
          IF aggregate_by_strike_raises(df_gamma)
          THEN \* the KeyError leaves process_options_data
               /\ frames' = [frames EXCEPT ![t] =
                      [@ EXCEPT !.pc = "raised", !.df_gamma = df_gamma]]
               /\ UNCHANGED <<self_levels, self_regime>>
          ELSE
       \E df_agg \in {aggregate_by_strike(df_gamma)} :
       \E levels \in {identify_key_levels(df_agg, current_price)} :
       \E stored \in {identify_key_levels_self(self_levels, df_agg, current_price)} :
       \E top_levels \in {rank_levels(df_agg)} :
       \E regime \in {determine_regime(stored, df_agg, current_price)} :
           /\ self_levels' = stored
           /\ self_regime' =
                determine_regime_self(self_regime, stored, df_agg, current_price)
           /\ frames' = [frames EXCEPT ![t] =
                  [@ EXCEPT !.pc = "returned", !.df_gamma = df_gamma,
                            !.df_agg = df_agg, !.levels = levels,
                            !.top_levels = top_levels, !.regime = regime,
                            !.ret = process_options_data_return(
                                        df_agg, levels, top_levels, regime)]]
    /\ UNCHANGED <<config_vars, component_vars, alert_vars>>

\* the caller is done with the returned tuple
Return(t) ==
    /\ frames[t].pc = "returned"
    /\ frames' = [frames EXCEPT ![t] = IdleFrame]
    /\ UNCHANGED <<self_levels, self_regime, config_vars, component_vars, alert_vars>>

\* repeated calls on one engine, one at a time
Next ==
    \/ \E df \in TablesUpTo(MaxSeqRows), current_price \in Prices :
          Call(1, df, current_price)
    \/ ProcessOptionsData(1)
    \/ Return(1)

Spec == Init /\ [][Next]_vars

\* one application of the pipeline on a fresh engine, to any bounded input
InitOnce ==
    /\ self_levels = EmptyLevels
    /\ self_regime = "neutral"
    /\ ConfigDefault
    /\ AlertSystemInit
    /\ ComponentsInit
    /\ \E df \in TablesUpTo(MaxRows), current_price \in Prices :
          frames = [t \in Threads |->
                      IF t = 1 THEN CalledFrame(df, current_price)
                      ELSE IdleFrame]

NextOnce == ProcessOptionsData(1)

SpecOnce == InitOnce /\ [][NextOnce]_vars

(***************************************************************************)
(* One application of the pipeline to tables whose exposures tie: every    *)
(* row has one of two quotes, one of them with gamma 0.                    *)
(***************************************************************************)
TieQuotes ==
    {[open_interest |-> 2, gamma |-> 0], [open_interest |-> 1, gamma |-> 1]}
TieRows ==
    {[strike |-> s, type |-> ty, open_interest |-> q.open_interest,
      gamma |-> q.gamma, volume |-> v] :
        s \in Strikes, ty \in Types, q \in TieQuotes, v \in Volumes}

InitTies ==
    /\ self_levels = EmptyLevels
    /\ self_regime = "neutral"
    /\ ConfigDefault
    /\ AlertSystemInit
    /\ ComponentsInit
    /\ \E df \in TablesOf(TieRows, MaxRows), current_price \in Prices :
          frames = [t \in Threads |->
                      IF t = 1 THEN CalledFrame(df, current_price)
                      ELSE IdleFrame]

NextTies == ProcessOptionsData(1)

SpecTies == InitTies /\ [][NextTies]_vars

(***************************************************************************)
(* One application of the pipeline under any configured                    *)
(* top_levels_count, to tables whose volume and open interest vary, at a   *)
(* valid and at a non-positive price.                                      *)
(***************************************************************************)
TopCounts == -1..MaxTopCount
ConfigPrices == {0, 100}
\* the (open_interest, gamma, volume) of a quote
ConfigQuotes ==
    {[open_interest |-> 1, gamma |-> 1, volume |-> 1],
     [open_interest |-> 2, gamma |-> 1, volume |-> 2]}
ConfigRows ==
    {[strike |-> s, type |-> ty, open_interest |-> q.open_interest,
      gamma |-> q.gamma, volume |-> q.volume] :
        s \in Strikes, ty \in Types, q \in ConfigQuotes}

InitConfig ==
    /\ self_levels = EmptyLevels
    /\ self_regime = "neutral"
    /\ top_levels_count \in TopCounts
    /\ AlertSystemInit
    /\ ComponentsInit
    /\ \E df \in TablesOf(ConfigRows, MaxRows), current_price \in ConfigPrices :
          frames = [t \in Threads |->
                      IF t = 1 THEN CalledFrame(df, current_price)
                      ELSE IdleFrame]

NextConfig == ProcessOptionsData(1)

SpecConfig == InitConfig /\ [][NextConfig]_vars

(***************************************************************************)
(* One application of the pipeline to tables with absent values: a cell    *)
(* of open_interest, gamma or volume that is NaN, and tables that have no  *)
(* gamma column at all.                                                    *)
(***************************************************************************)
AbsentOr(x) == {NaN, x}

\* rows of a table that has the gamma column
RowsWithGamma ==
    {[strike |-> s, type |-> ty, open_interest |-> oi, gamma |-> g,
      volume |-> v] :
        s \in Strikes, ty \in Types, oi \in AbsentOr(1), g \in AbsentOr(1),
        v \in AbsentOr(1)}

\* rows of a table that has no gamma column
RowsWithoutGamma ==
    {[strike |-> s, type |-> ty, open_interest |-> oi, volume |-> v] :
        s \in Strikes, ty \in Types, oi \in AbsentOr(1), v \in AbsentOr(1)}

InitAbsent ==
    /\ self_levels = EmptyLevels
    /\ self_regime = "neutral"
    /\ ConfigDefault
    /\ AlertSystemInit
    /\ ComponentsInit
    /\ \E df \in TablesOf(RowsWithGamma, MaxAbsentRows)
                   \cup TablesOf(RowsWithoutGamma, MaxAbsentRows) :
          frames = [t \in Threads |->
                      IF t = 1 THEN CalledFrame(df, 100) ELSE IdleFrame]

NextAbsent == ProcessOptionsData(1)

SpecAbsent == InitAbsent /\ [][NextAbsent]_vars

(***************************************************************************)
(* Two invocations on the engine the application shares, their stages      *)
(* interleaved.                                                            *)
(***************************************************************************)
StepCalculateDealerGamma(t) ==
    /\ frames[t].pc = "calculate_dealer_gamma"
    /\ frames' = [frames EXCEPT ![t] =
          [@ EXCEPT !.pc = "aggregate_by_strike",
                    !.df_gamma = calculate_dealer_gamma(frames[t].df)]]
    /\ UNCHANGED <<self_levels, self_regime, config_vars, component_vars, alert_vars>>

StepAggregateByStrike(t) ==
    /\ frames[t].pc = "aggregate_by_strike"
    /\ frames' = [frames EXCEPT ![t] =
          IF aggregate_by_strike_raises(frames[t].df_gamma)
          THEN [@ EXCEPT !.pc = "raised"]
          ELSE [@ EXCEPT !.pc = "identify_key_levels",
                         !.df_agg = aggregate_by_strike(frames[t].df_gamma)]]
    /\ UNCHANGED <<self_levels, self_regime, config_vars, component_vars, alert_vars>>

StepIdentifyKeyLevels(t) ==
    /\ frames[t].pc = "identify_key_levels"
    /\ frames' = [frames EXCEPT ![t] =
          [@ EXCEPT !.pc = "rank_levels",
                    !.levels = identify_key_levels(frames[t].df_agg,
                                                   frames[t].current_price)]]
    /\ self_levels' = identify_key_levels_self(self_levels, frames[t].df_agg,
                                               frames[t].current_price)
    /\ UNCHANGED <<self_regime, config_vars, component_vars, alert_vars>>

StepRankLevels(t) ==
    /\ frames[t].pc = "rank_levels"
    /\ frames' = [frames EXCEPT ![t] =
          [@ EXCEPT !.pc = "determine_regime",
                    !.top_levels = rank_levels(frames[t].df_agg)]]
    /\ UNCHANGED <<self_levels, self_regime, config_vars, component_vars, alert_vars>>

StepDetermineRegime(t) ==
    /\ frames[t].pc = "determine_regime"
    /\ \E regime \in {determine_regime(self_levels, frames[t].df_agg,
                                        frames[t].current_price)} :
          frames' = [frames EXCEPT ![t] =
             [@ EXCEPT !.pc = "returned", !.regime = regime,
                       !.ret = process_options_data_return(
                                   frames[t].df_agg, frames[t].levels,
                                   frames[t].top_levels, regime)]]
    /\ self_regime' = determine_regime_self(self_regime, self_levels,
                                            frames[t].df_agg,
                                            frames[t].current_price)
    /\ UNCHANGED <<self_levels, config_vars, component_vars, alert_vars>>

InitConc ==
    /\ self_levels = EmptyLevels
    /\ self_regime = "neutral"
    /\ ConfigDefault
    /\ AlertSystemInit
    /\ ComponentsInit
    /\ frames \in [Threads -> {CalledFrame(df, current_price) :
                                 df \in TablesUpTo(MaxConcRows),
                                 current_price \in Prices}]

NextConc ==
    \E t \in Threads :
        \/ StepCalculateDealerGamma(t)
        \/ StepAggregateByStrike(t)
        \/ StepIdentifyKeyLevels(t)
        \/ StepRankLevels(t)
        \/ StepDetermineRegime(t)

SpecConc == InitConc /\ [][NextConc]_vars

(***************************************************************************)
(* One invocation on a fresh engine, stage by stage, on the tables with    *)
(* absent values (a table without the gamma column ends in the raise of    *)
(* aggregate_by_strike).                                                   *)
(***************************************************************************)
NextStages ==
    \/ StepCalculateDealerGamma(1)
    \/ StepAggregateByStrike(1)
    \/ StepIdentifyKeyLevels(1)
    \/ StepRankLevels(1)
    \/ StepDetermineRegime(1)

SpecStages == InitAbsent /\ [][NextStages]_vars

(***************************************************************************)
(* AlertCondition and AlertSystem.  ES prices are counted in half points,  *)
(* so that the default distance threshold of 0.5 points is 1.              *)
(***************************************************************************)
alert_distance_threshold == 1   \* config.alert_distance_threshold (0.5 points)

\* AlertCondition.__init__
AlertCondition(level_name, es_level, distance_threshold, volume_threshold) ==
    [level_name |-> level_name,
     es_level |-> es_level,
     distance_threshold |->
        IF distance_threshold = None \/ distance_threshold = 0
        THEN alert_distance_threshold ELSE distance_threshold,
     volume_threshold |-> volume_threshold,
     triggered |-> FALSE,
     trigger_time |-> None]

\* check with the boundary distance leaving the alert silent
check_boundary_excluded(self, current_es_price, current_volume, velocity) ==
    IF Abs(current_es_price - self.es_level) >= self.distance_threshold
    THEN FALSE
    ELSE IF /\ self.volume_threshold # None /\ current_volume # None
            /\ current_volume < self.volume_threshold
    THEN FALSE
    ELSE IF /\ velocity # None
            /\ \/ current_es_price < self.es_level /\ velocity < 0
               \/ current_es_price > self.es_level /\ velocity > 0
    THEN FALSE
    ELSE TRUE

\* AlertCondition.check
check(self, current_es_price, current_volume, velocity) ==
    IF Abs(current_es_price - self.es_level) > self.distance_threshold
    THEN FALSE
    ELSE IF /\ self.volume_threshold # None /\ current_volume # None
            /\ current_volume < self.volume_threshold
    THEN FALSE
    ELSE IF /\ velocity # None
            /\ \/ current_es_price < self.es_level /\ velocity < 0
               \/ current_es_price > self.es_level /\ velocity > 0
    THEN FALSE
    ELSE TRUE

\* AlertCondition.trigger
trigger(self) == [self EXCEPT !.triggered = TRUE, !.trigger_time = Now]

\* AlertSystem.add_condition
add_condition(self_conditions, condition) == Append(self_conditions, condition)

RECURSIVE setup_levels_from(_, _, _)
\* the loop of setup_levels from item i of converted_levels
setup_levels_from(self_conditions, converted_levels, i) ==
    IF i > Len(converted_levels) THEN self_conditions
    ELSE LET level_name == converted_levels[i].level_name
             level_data == converted_levels[i].level_data
         IN  setup_levels_from(
                 IF "es" \in DOMAIN level_data
                 THEN add_condition(self_conditions,
                          AlertCondition(level_name, level_data.es, None, None))
                 ELSE self_conditions,
                 converted_levels, i + 1)

\* a list that clear() leaves as it was
not_cleared(self_conditions) == self_conditions

\* self.conditions.clear()
clear(self_conditions) == <<>>

\* AlertSystem.setup_levels: the conditions after clear() and the loop
setup_levels(self_conditions, converted_levels) ==
    setup_levels_from(clear(self_conditions), converted_levels, 1)

\* a loop that checks every condition, triggered or not
never_skipped(condition) == FALSE

\* if condition.triggered: continue
already_triggered(condition) == condition.triggered

\* an alert_data dict that reports the price as the level
alert_data_price_as_level(condition, current_es_price, current_volume, velocity) ==
    [timestamp |-> condition.trigger_time,
     level_name |-> condition.level_name,
     es_level |-> current_es_price,
     current_price |-> current_es_price,
     distance |-> Abs(current_es_price - condition.es_level),
     volume |-> current_volume,
     velocity |-> velocity]

\* the alert_data dict appended to alert_history
alert_data(condition, current_es_price, current_volume, velocity) ==
    [timestamp |-> condition.trigger_time,
     level_name |-> condition.level_name,
     es_level |-> condition.es_level,
     current_price |-> current_es_price,
     distance |-> Abs(current_es_price - condition.es_level),
     volume |-> current_volume,
     velocity |-> velocity]

RECURSIVE check_all_conditions_from(_, _, _, _, _, _, _)
\* the loop of check_all_conditions from condition i: the conditions, the
\* history and the positions of the conditions in the list returned
check_all_conditions_from(self_conditions, self_alert_history, triggered, i, current_es_price, current_volume, velocity) ==
    IF i > Len(self_conditions)
    THEN [conditions |-> self_conditions,
          alert_history |-> self_alert_history,
          triggered |-> triggered]
    ELSE IF \/ already_triggered(self_conditions[i])
            \/ ~check(self_conditions[i], current_es_price, current_volume,
                      velocity)
    THEN check_all_conditions_from(self_conditions, self_alert_history,
             triggered, i + 1, current_es_price, current_volume, velocity)
    ELSE LET condition == trigger(self_conditions[i])
         IN  check_all_conditions_from(
                 [self_conditions EXCEPT ![i] = condition],
                 Append(self_alert_history,
                        alert_data(condition, current_es_price, current_volume,
                                   velocity)),
                 Append(triggered, i),
                 i + 1, current_es_price, current_volume, velocity)

\* AlertSystem.check_all_conditions
check_all_conditions(self_conditions, self_alert_history, current_es_price, current_volume, velocity) ==
    check_all_conditions_from(self_conditions, self_alert_history, <<>>, 1,
                              current_es_price, current_volume, velocity)

\* AlertSystem.reset_conditions
reset_conditions(self_conditions) ==
    [i \in 1..Len(self_conditions) |->
        [self_conditions[i] EXCEPT !.triggered = FALSE, !.trigger_time = None]]

RECURSIVE triggered_count(_)
\* sum(1 for c in self.conditions if c.triggered)
triggered_count(self_conditions) ==
    IF self_conditions = <<>> THEN 0
    ELSE (IF Head(self_conditions).triggered THEN 1 ELSE 0)
         + triggered_count(Tail(self_conditions))

\* AlertSystem.get_alert_summary
get_alert_summary(self_conditions, self_alert_history) ==
    [total_conditions |-> Len(self_conditions),
     triggered_count |-> triggered_count(self_conditions),
     active_conditions |->
        [i \in 1..Len(self_conditions) |->
            [level_name |-> self_conditions[i].level_name,
             es_level |-> self_conditions[i].es_level,
             triggered |-> self_conditions[i].triggered,
             trigger_time |-> self_conditions[i].trigger_time]],
     alert_history_count |-> Len(self_alert_history)]

LevelOrder == <<"put_wall", "call_wall">>
EsLevelsOf == [put_wall |-> {200}, call_wall |-> {202, 204}]
EsPrices == {199, 201, 204}
CurrentVolumes == {None, 1}
Velocities == {None, -1, 1}

\* the converted levels a caller passes: per level name, in the order of
\* the dict, an entry with the ES level or one without
ConvertedLevels ==
    {[i \in 1..Len(LevelOrder) |->
        [level_name |-> LevelOrder[i],
         level_data |-> IF es[LevelOrder[i]] # None
                        THEN [spx |-> es[LevelOrder[i]], es |-> es[LevelOrder[i]]]
                        ELSE [spx |-> 0]]] :
        es \in [put_wall : EsLevelsOf.put_wall \cup {None},
                call_wall : EsLevelsOf.call_wall \cup {None}]}

SetupLevels ==
    /\ \E converted_levels \in ConvertedLevels :
          /\ conditions' = setup_levels(conditions, converted_levels)
          /\ alert_call' = [op |-> "setup_levels",
                            converted_levels |-> converted_levels]
    /\ alert_ret' = <<>>
    /\ UNCHANGED <<alert_history, engine_vars, config_vars, component_vars>>

CheckAllConditions ==
    /\ Len(alert_history) < MaxAlerts
    /\ \E current_es_price \in EsPrices, current_volume \in CurrentVolumes,
          velocity \in Velocities :
          \E r \in {check_all_conditions(conditions, alert_history,
                         current_es_price, current_volume, velocity)} :
              /\ conditions' = r.conditions
              /\ alert_history' = r.alert_history
              /\ alert_ret' = r.triggered
              /\ alert_call' = [op |-> "check_all_conditions",
                                current_es_price |-> current_es_price,
                                current_volume |-> current_volume,
                                velocity |-> velocity]
    /\ UNCHANGED <<engine_vars, config_vars, component_vars>>

ResetConditions ==
    /\ conditions' = reset_conditions(conditions)
    /\ alert_ret' = <<>>
    /\ alert_call' = [op |-> "reset_conditions"]
    /\ UNCHANGED <<alert_history, engine_vars, config_vars, component_vars>>

NextAlerts ==
    \/ SetupLevels
    \/ CheckAllConditions
    \/ ResetConditions

SpecAlerts == Init /\ [][NextAlerts]_vars

(***************************************************************************)
(* AlertCondition.check on conditions a caller builds with any thresholds  *)
(* and adds with add_condition, triggered or not.                          *)
(***************************************************************************)
CheckLevels == {200}
DistanceThresholds == {None, 0, 2}
VolumeThresholds == {None, 2}
CheckPrices == {197, 198, 199, 200, 201, 203}
CheckVolumes == {None, 1, 2}
CheckVelocities == {None, -1, 0, 1}

\* alerts.add_condition(AlertCondition(level_name, es_level, ...))
AddCondition ==
    /\ Len(conditions) < MaxConditions
    /\ \E es_level \in CheckLevels, distance_threshold \in DistanceThresholds,
          volume_threshold \in VolumeThresholds :
          conditions' = add_condition(conditions,
                            AlertCondition("put_wall", es_level,
                                           distance_threshold, volume_threshold))
    /\ alert_ret' = <<>>
    /\ alert_call' = [op |-> "add_condition"]
    /\ UNCHANGED <<alert_history, check_vars, engine_vars, config_vars,
                   api_vars, converter_vars, scheduler_vars>>

\* condition.trigger() on a condition of the system
TriggerCondition ==
    /\ \E i \in 1..Len(conditions) :
          conditions' = [conditions EXCEPT ![i] = trigger(conditions[i])]
    /\ alert_ret' = <<>>
    /\ alert_call' = [op |-> "trigger"]
    /\ UNCHANGED <<alert_history, check_vars, engine_vars, config_vars,
                   api_vars, converter_vars, scheduler_vars>>

\* condition.check(current_es_price, current_volume, velocity): no
\* attribute of the condition is assigned
CheckCondition ==
    /\ \E i \in 1..Len(conditions), current_es_price \in CheckPrices,
          current_volume \in CheckVolumes, velocity \in CheckVelocities :
          check_call' = [op |-> "check", i |-> i,
                         current_es_price |-> current_es_price,
                         current_volume |-> current_volume,
                         velocity |-> velocity,
                         ret |-> check(conditions[i], current_es_price,
                                       current_volume, velocity)]
    /\ UNCHANGED <<alert_vars, engine_vars, config_vars, api_vars,
                   converter_vars, scheduler_vars>>

NextCheck ==
    \/ AddCondition
    \/ TriggerCondition
    \/ CheckCondition

SpecCheck == Init /\ [][NextCheck]_vars

(***************************************************************************)
(* SPXtoESConverter.  A datetime is modelled by its day; the converter is  *)
(* the record of its attributes spread and spread_timestamp.               *)
(***************************************************************************)
NonNumeric == -997   \* a value that is neither an int nor a float

\* the attributes of the converter
Converter(self_spread, self_spread_timestamp) ==
    [spread |-> self_spread, spread_timestamp |-> self_spread_timestamp]

\* calculate_spread: the attributes, the file written and the return value
calculate_spread(spx_price, es_price, now) ==
    [self |-> Converter(es_price - spx_price, now),
     file |-> [spread |-> es_price - spx_price, timestamp |-> now,
               spx_price |-> spx_price, es_price |-> es_price, date |-> now],
     ret |-> es_price - spx_price]

\* load_cached_spread: the attributes and the return value
load_cached_spread(self, file, now) ==
    IF file = NoFile THEN [self |-> self, ret |-> None]
    ELSE IF file.date = now
    THEN [self |-> Converter(file.spread, file.timestamp), ret |-> file.spread]
    ELSE [self |-> self, ret |-> None]

\* get_spread: the attributes and the return value
get_spread(self, file, now) ==
    IF self.spread # None THEN [self |-> self, ret |-> self.spread]
    ELSE load_cached_spread(self, file, now)

\* convert_spx_level_to_es with the spread taken off the level
convert_spx_level_to_es_subtracting(self, file, now, spx_level) ==
    LET got == get_spread(self, file, now)
    IN  IF got.ret = None THEN [self |-> got.self, ret |-> None]
        ELSE [self |-> got.self, ret |-> spx_level - got.ret]

\* convert_spx_level_to_es: the attributes and the return value
convert_spx_level_to_es(self, file, now, spx_level) ==
    LET got == get_spread(self, file, now)
    IN  IF got.ret = None THEN [self |-> got.self, ret |-> None]
        ELSE [self |-> got.self, ret |-> spx_level + got.ret]

\* isinstance(spx_value, (int, float))
is_int_or_float(spx_value) == spx_value # NonNumeric

RECURSIVE convert_levels_dict_from(_, _, _, _, _, _, _)
\* the loop of convert_levels_dict from item i of spx_levels
convert_levels_dict_from(self, file, now, spx_levels, spread_got, converted, i) ==
    IF i > Len(spx_levels) THEN [self |-> self, ret |-> converted]
    ELSE IF ~is_int_or_float(spx_levels[i].value)
    THEN convert_levels_dict_from(self, file, now, spx_levels, spread_got,
                                  converted, i + 1)
    ELSE LET es == convert_spx_level_to_es(self, file, now, spx_levels[i].value)
         IN  convert_levels_dict_from(es.self, file, now, spx_levels, spread_got,
                 Append(converted,
                        [level_name |-> spx_levels[i].level_name,
                         level_data |-> [spx |-> spx_levels[i].value,
                                         es |-> es.ret,
                                         spread |-> spread_got]]),
                 i + 1)

\* convert_levels_dict: the attributes and the dict returned, its items in
\* insertion order
convert_levels_dict(self, file, now, spx_levels) ==
    LET got == get_spread(self, file, now)
    IN  IF got.ret = None THEN [self |-> got.self, ret |-> <<>>]
        ELSE convert_levels_dict_from(got.self, file, now, spx_levels, got.ret,
                                      <<>>, 1)

SpxPrices == {100}
EsPricesNow == {100, 102}
SpxLevelValues == <<{99, 100}, {-100, NonNumeric}>>
SpxLevelNames == <<"put_wall", "put_wall_gamma">>

\* an item of a dict that is there
Present(item) == item.value # None

\* the dicts of levels a caller passes, their items in insertion order
SpxLevels ==
    {SelectSeq([i \in 1..Len(SpxLevelNames) |->
                    [level_name |-> SpxLevelNames[i], value |-> value[i]]],
               Present) :
        value \in [1..Len(SpxLevelNames) ->
                      UNION {SpxLevelValues[i] : i \in 1..Len(SpxLevelNames)}
                      \cup {None}]}

\* the daily_spread.json an earlier process may have left
CacheFiles ==
    {NoFile} \cup {calculate_spread(100, 102, day).file : day \in 0..1}

\* a converter built in a process that starts on day 1
InitConverter ==
    /\ self_levels = EmptyLevels
    /\ self_regime = "neutral"
    /\ frames = [t \in Threads |-> IdleFrame]
    /\ ConfigDefault
    /\ AlertSystemInit
    /\ check_call = NoCall
    /\ api_ret = NoCall
    /\ SchedulerInit
    /\ spread = None
    /\ spread_timestamp = None
    /\ spread_cache_file \in CacheFiles
    /\ today = 1
    /\ converter_ret = NoCall

CalculateSpread ==
    /\ \E spx_price \in SpxPrices, es_price \in EsPricesNow :
       \E r \in {calculate_spread(spx_price, es_price, today)} :
          /\ spread' = r.self.spread
          /\ spread_timestamp' = r.self.spread_timestamp
          /\ spread_cache_file' = r.file
          /\ converter_ret' = [op |-> "calculate_spread", ret |-> r.ret]
    /\ UNCHANGED <<today, engine_vars, config_vars, alert_vars, check_vars,
                   api_vars, scheduler_vars>>

LoadCachedSpread ==
    /\ \E r \in {load_cached_spread(Converter(spread, spread_timestamp),
                                     spread_cache_file, today)} :
          /\ spread' = r.self.spread
          /\ spread_timestamp' = r.self.spread_timestamp
          /\ converter_ret' = [op |-> "load_cached_spread", ret |-> r.ret]
    /\ UNCHANGED <<spread_cache_file, today, engine_vars, config_vars,
                   alert_vars, check_vars, api_vars, scheduler_vars>>

GetSpread ==
    /\ \E r \in {get_spread(Converter(spread, spread_timestamp),
                             spread_cache_file, today)} :
          /\ spread' = r.self.spread
          /\ spread_timestamp' = r.self.spread_timestamp
          /\ converter_ret' = [op |-> "get_spread", ret |-> r.ret]
    /\ UNCHANGED <<spread_cache_file, today, engine_vars, config_vars,
                   alert_vars, check_vars, api_vars, scheduler_vars>>

ConvertSpxLevelToEs ==
    /\ \E spx_level \in SpxLevelValues[1] :
       \E r \in {convert_spx_level_to_es(Converter(spread, spread_timestamp),
                                          spread_cache_file, today, spx_level)} :
          /\ spread' = r.self.spread
          /\ spread_timestamp' = r.self.spread_timestamp
          /\ converter_ret' = [op |-> "convert_spx_level_to_es",
                                spx_level |-> spx_level, ret |-> r.ret]
    /\ UNCHANGED <<spread_cache_file, today, engine_vars, config_vars,
                   alert_vars, check_vars, api_vars, scheduler_vars>>

ConvertLevelsDict ==
    /\ \E spx_levels \in SpxLevels :
       \E r \in {convert_levels_dict(Converter(spread, spread_timestamp),
                                      spread_cache_file, today, spx_levels)} :
          /\ spread' = r.self.spread
          /\ spread_timestamp' = r.self.spread_timestamp
          /\ converter_ret' = [op |-> "convert_levels_dict",
                                spx_levels |-> spx_levels, ret |-> r.ret]
    /\ UNCHANGED <<spread_cache_file, today, engine_vars, config_vars,
                   alert_vars, check_vars, api_vars, scheduler_vars>>

\* midnight passes
DayChange ==
    /\ today < MaxDay
    /\ today' = today + 1
    /\ UNCHANGED <<spread, spread_timestamp, spread_cache_file, converter_ret,
                   engine_vars, config_vars, alert_vars, check_vars, api_vars,
                   scheduler_vars>>

NextConverter ==
    \/ CalculateSpread
    \/ LoadCachedSpread
    \/ GetSpread
    \/ ConvertSpxLevelToEs
    \/ ConvertLevelsDict
    \/ DayChange

SpecConverter == InitConverter /\ [][NextConverter]_vars

(***************************************************************************)
(* GammaScheduler: the jobs of one scheduler, each run to its end.  Prices *)
(* and strikes are in half points, as the alert thresholds are.            *)
(***************************************************************************)
strike_range_percent == 15   \* config.strike_range_percent (1.5), in tenths
min_volume_threshold == 50   \* config.min_volume_threshold

\* DataFetcher.filter_options_by_range
filter_options_by_range(df, current_price) ==
    IF df = EmptyDf THEN df
    ELSE LET in_range(row) ==
                 /\ row.strike * 1000 >= current_price * (1000 - strike_range_percent)
                 /\ row.strike * 1000 <= current_price * (1000 + strike_range_percent)
                 /\ row.volume >= min_volume_threshold
         IN  SelectSeq(df, in_range)

\* the whole of GammaEngine.process_options_data on an engine whose
\* attributes are levels and regime: whether it raised, the attributes
\* after it and the tuple returned
process_options_data(levels, regime, df, current_price) ==
    LET df_gamma == calculate_dealer_gamma(df)
        df_agg == aggregate_by_strike(df_gamma)
        stored == identify_key_levels_self(levels, df_agg, current_price)
    IN  IF aggregate_by_strike_raises(df_gamma)
        THEN [raised |-> TRUE, levels |-> levels, regime |-> regime,
              ret |-> <<>>]
        ELSE [raised |-> FALSE, levels |-> stored,
              regime |-> determine_regime_self(regime, stored, df_agg,
                                               current_price),
              ret |-> process_options_data_return(
                          df_agg,
                          identify_key_levels(df_agg, current_price),
                          rank_levels(df_agg),
                          determine_regime(stored, df_agg, current_price))]

\* the keys of the dict identify_key_levels builds, in insertion order
LevelKeyOrder ==
    <<"put_wall", "put_wall_gamma", "call_wall", "call_wall_gamma",
      "gamma_flip", "gamma_flip_value">>

\* levels.items()
items(levels) ==
    SelectSeq([i \in 1..Len(LevelKeyOrder) |->
                  [level_name |-> LevelKeyOrder[i],
                   value |-> IF LevelKeyOrder[i] \in DOMAIN levels
                             THEN levels[LevelKeyOrder[i]] ELSE None]],
              Present)

\* job_load_options that stores the price before it looks at the table
job_load_options_price_first(self_current_data, spx_price, options_df) ==
    IF spx_price = None \/ spx_price = 0
    THEN [current_data |-> self_current_data, outcome |-> "no_price"]
    ELSE IF options_df = EmptyDf
    THEN [current_data |-> ("spx_price" :> spx_price) @@ self_current_data,
          outcome |-> "no_options"]
    ELSE [current_data |->
              ("options_df" :> filter_options_by_range(options_df, spx_price))
              @@ ("spx_price" :> spx_price) @@ self_current_data,
          outcome |-> "done"]

\* job_load_options: current_data after it and the place it returned at
job_load_options(self_current_data, spx_price, options_df) ==
    IF spx_price = None \/ spx_price = 0
    THEN [current_data |-> self_current_data, outcome |-> "no_price"]
    ELSE IF options_df = EmptyDf
    THEN [current_data |-> self_current_data, outcome |-> "no_options"]
    ELSE [current_data |->
              ("options_df" :> filter_options_by_range(options_df, spx_price))
              @@ ("spx_price" :> spx_price) @@ self_current_data,
          outcome |-> "done"]

\* json.dump raises TypeError on a dict that holds a DataFrame
json_dump_raises(data) == "options_df" \in DOMAIN data

FetchedSpxPrices == {None, 100}
FetchedEsPrices == {None, 100, 102}

\* the rows of a table get_0dte_options returns
FetchedRows ==
    {[strike |-> 100, type |-> ty, open_interest |-> 1, gamma |-> 1,
      volume |-> 50] : ty \in Types}
    \cup {[strike |-> 100, type |-> "call", open_interest |-> 1, gamma |-> 1,
            volume |-> 49],
           [strike |-> 98, type |-> "call", open_interest |-> 1, gamma |-> 1,
            volume |-> 50]}

\* the rows of a table from a source that gives no gamma column
FetchedRowsWithoutGamma ==
    {[strike |-> 100, type |-> "call", open_interest |-> 1, volume |-> 50]}

\* the tables get_0dte_options may return
FetchedTables ==
    TablesOf(FetchedRows, MaxJobRows)
    \cup TablesOf(FetchedRowsWithoutGamma, MaxJobRows)

JobLoadOptions ==
    /\ \E spx_price \in FetchedSpxPrices,
          options_df \in FetchedTables :
       \E r \in {job_load_options(current_data, spx_price, options_df)} :
          /\ current_data' = r.current_data
          /\ job_log' = [op |-> "job_load_options", outcome |-> r.outcome]
    /\ UNCHANGED <<engine_vars, config_vars, alert_vars, check_vars, api_vars,
                   converter_vars>>

JobCalculateSpread ==
    /\ \E spx_price \in FetchedSpxPrices, es_price \in FetchedEsPrices :
          IF spx_price = None \/ spx_price = 0 \/ es_price = None \/ es_price = 0
          THEN /\ job_log' = [op |-> "job_calculate_spread",
                               outcome |-> "no_price"]
               /\ UNCHANGED <<spread, spread_timestamp, spread_cache_file>>
          ELSE \E r \in {calculate_spread(spx_price, es_price, today)} :
                  /\ spread' = r.self.spread
                  /\ spread_timestamp' = r.self.spread_timestamp
                  /\ spread_cache_file' = r.file
                  /\ job_log' = [op |-> "job_calculate_spread",
                                  outcome |-> "done"]
    /\ UNCHANGED <<today, converter_ret, current_data, engine_vars, config_vars,
                   alert_vars, check_vars, api_vars>>

JobCalculateLevels ==
    /\ IF "options_df" \notin DOMAIN current_data
          \/ "spx_price" \notin DOMAIN current_data
       THEN /\ job_log' = [op |-> "job_calculate_levels", outcome |-> "no_data"]
            /\ UNCHANGED <<current_data, self_levels, self_regime, spread,
                           spread_timestamp>>
       ELSE \E r \in {process_options_data(self_levels, self_regime,
                           current_data["options_df"],
                           current_data["spx_price"])} :
               IF r.raised
               THEN /\ job_log' = [op |-> "job_calculate_levels",
                                    outcome |-> "raised"]
                    /\ UNCHANGED <<current_data, self_levels, self_regime,
                                   spread, spread_timestamp>>
               ELSE \E c \in {convert_levels_dict(
                                  Converter(spread, spread_timestamp),
                                  spread_cache_file, today, items(r.ret[2]))} :
                       /\ self_levels' = r.levels
                       /\ self_regime' = r.regime
                       /\ spread' = c.self.spread
                       /\ spread_timestamp' = c.self.spread_timestamp
                       /\ current_data' =
                             ("converted_levels" :> c.ret)
                             @@ ("regime" :> r.ret[3]) @@ current_data
                       /\ job_log' = [op |-> "job_calculate_levels",
                                       outcome |-> "done"]
    /\ UNCHANGED <<frames, spread_cache_file, today, converter_ret,
                   config_vars, alert_vars, check_vars, api_vars>>

JobActivateAlerts ==
    /\ IF "converted_levels" \notin DOMAIN current_data
       THEN /\ job_log' = [op |-> "job_activate_alerts",
                            outcome |-> "no_levels"]
            /\ UNCHANGED alert_vars
       ELSE /\ conditions' =
                  setup_levels(conditions, current_data["converted_levels"])
            /\ alert_ret' = <<>>
            /\ alert_call' = [op |-> "setup_levels",
                               converted_levels |->
                                   current_data["converted_levels"]]
            /\ job_log' = [op |-> "job_activate_alerts", outcome |-> "done"]
            /\ UNCHANGED alert_history
    /\ UNCHANGED <<current_data, engine_vars, config_vars, check_vars,
                   api_vars, converter_vars>>

JobMonitorAlerts ==
    /\ Len(alert_history) < MaxAlerts
    /\ \E es_price \in FetchedEsPrices :
          IF es_price = None \/ es_price = 0
          THEN /\ job_log' = [op |-> "job_monitor_alerts",
                               outcome |-> "no_price"]
               /\ UNCHANGED alert_vars
          ELSE \E r \in {check_all_conditions(conditions, alert_history,
                              es_price, None, None)} :
                  /\ conditions' = r.conditions
                  /\ alert_history' = r.alert_history
                  /\ alert_ret' = r.triggered
                  /\ alert_call' = [op |-> "check_all_conditions",
                                     current_es_price |-> es_price,
                                     current_volume |-> None,
                                     velocity |-> None]
                  /\ job_log' = [op |-> "job_monitor_alerts",
                                  outcome |-> "done"]
    /\ UNCHANGED <<current_data, engine_vars, config_vars, check_vars,
                   api_vars, converter_vars>>

JobSaveDailyLog ==
    /\ IF json_dump_raises(current_data)
       THEN /\ job_log' = [op |-> "job_save_daily_log", outcome |-> "raised"]
            /\ UNCHANGED alert_vars
       ELSE /\ conditions' = reset_conditions(conditions)
            /\ alert_ret' = <<>>
            /\ alert_call' = [op |-> "reset_conditions"]
            /\ job_log' = [op |-> "job_save_daily_log", outcome |-> "done"]
            /\ UNCHANGED alert_history
    /\ UNCHANGED <<current_data, engine_vars, config_vars, check_vars,
                   api_vars, converter_vars>>

NextScheduler ==
    \/ JobLoadOptions
    \/ JobCalculateSpread
    \/ JobCalculateLevels
    \/ JobActivateAlerts
    \/ JobMonitorAlerts
    \/ JobSaveDailyLog

SpecScheduler == Init /\ [][NextScheduler]_vars

(***************************************************************************)
(* api/gamma.py: the serverless calculate_gamma_levels, run on the table   *)
(* and price that the engine of frame 1 is called with.                    *)
(***************************************************************************)
\* the three columns calculate_gamma_levels adds to df
api_dealer_gamma(df) ==
    [i \in 1..Len(df) |->
        LET row == df[i]
            dg == dealer_gamma(row.open_interest, row.gamma)
        IN  [strike |-> row.strike, type |-> row.type,
             open_interest |-> row.open_interest, gamma |-> row.gamma,
             volume |-> row.volume,
             dealer_gamma |-> dg,
             call_gamma |-> IF row.type = "call" THEN dg ELSE 0,
             put_gamma |-> IF row.type = "put" THEN dg ELSE 0]]

\* the levels dict of calculate_gamma_levels
api_levels(agg_df, spx_price) ==
    LET put_strikes == SelectSeq(agg_df, LAMBDA r : r.strike <= spx_price)
        call_strikes == SelectSeq(agg_df, LAMBDA r : r.strike >= spx_price)
        near_price ==
            SelectSeq(agg_df, LAMBDA r : /\ r.strike * 100 >= spx_price * 99
                                         /\ r.strike * 100 <= spx_price * 101)
    IN  (IF put_strikes = EmptyDf THEN EmptyLevels
         ELSE "put_wall" :> put_strikes[idxmax_abs(put_strikes, "put_gamma")].strike)
        @@ (IF call_strikes = EmptyDf THEN EmptyLevels
            ELSE "call_wall" :>
                     call_strikes[idxmax_abs(call_strikes, "call_gamma")].strike)
        @@ (IF near_price = EmptyDf THEN EmptyLevels
            ELSE "gamma_flip" :>
                     near_price[idxmin_abs(near_price, "net_gamma")].strike)

\* "short_gamma" if spx_price > levels.get('gamma_flip', spx_price)
\* else "long_gamma"
api_regime(levels, spx_price) ==
    IF spx_price > (IF "gamma_flip" \in DOMAIN levels THEN levels["gamma_flip"]
                    ELSE spx_price)
    THEN "short_gamma" ELSE "long_gamma"

\* return levels, regime, agg_df
calculate_gamma_levels(df, spx_price) ==
    LET agg_df == aggregate_by_strike(api_dealer_gamma(df))
        levels == api_levels(agg_df, spx_price)
    IN  <<levels, api_regime(levels, spx_price), agg_df>>

\* one table with rows and one price, for both implementations
InitApi ==
    /\ self_levels = EmptyLevels
    /\ self_regime = "neutral"
    /\ ConfigDefault
    /\ AlertSystemInit
    /\ ComponentsInit
    /\ \E df \in TablesUpTo(MaxApiRows) \ {EmptyDf}, current_price \in Prices :
          frames = [t \in Threads |->
                      IF t = 1 THEN CalledFrame(df, current_price)
                      ELSE IdleFrame]

CalculateGammaLevels ==
    /\ api_ret = NoCall
    /\ api_ret' = [op |-> "calculate_gamma_levels",
                    ret |-> calculate_gamma_levels(frames[1].df,
                                                   frames[1].current_price)]
    /\ UNCHANGED <<engine_vars, config_vars, alert_vars, check_vars,
                   converter_vars, scheduler_vars>>

NextApi ==
    \/ ProcessOptionsData(1)
    \/ CalculateGammaLevels

SpecApi == InitApi /\ [][NextApi]_vars

(***************************************************************************)
(* Properties.                                                             *)
(***************************************************************************)
Returned(t) == frames[t].pc = "returned"

\* the positions of an aggregate whose strike is strictly below, at or
\* below, strictly above, at or above the price, and within 1% of it
StrictlyBelow(agg, price) == {i \in 1..Len(agg) : agg[i].strike < price}
AtOrBelow(agg, price) == {i \in 1..Len(agg) : agg[i].strike <= price}
StrictlyAbove(agg, price) == {i \in 1..Len(agg) : agg[i].strike > price}
AtOrAbove(agg, price) == {i \in 1..Len(agg) : agg[i].strike >= price}
InWindow(agg, price) ==
    {i \in 1..Len(agg) : /\ 99 * price <= 100 * agg[i].strike
                         /\ 100 * agg[i].strike <= 101 * price}

RECURSIVE ExposureOver(_, _)
\* the sum over the rows at positions S of -1 * open_interest * gamma * 100
ExposureOver(df, S) ==
    IF S = {} THEN 0
    ELSE LET i == CHOOSE x \in S : TRUE
         IN  (-1) * df[i].open_interest * df[i].gamma * 100
             + ExposureOver(df, S \ {i})

RowsOf(df, s, ty) == {i \in 1..Len(df) : df[i].strike = s /\ df[i].type = ty}

\* C1: every row of the aggregate a call returns has
\* net_gamma = call_gamma + put_gamma.
C1_NetGammaIsCallPlusPut ==
    \A t \in Threads :
        Returned(t) =>
            \A i \in 1..Len(frames[t].df_agg) :
                frames[t].df_agg[i].net_gamma =
                    frames[t].df_agg[i].call_gamma + frames[t].df_agg[i].put_gamma

\* a returned aggregate with a strike that has call and put exposure
C1_Witness ==
    /\ Returned(1)
    /\ \E i \in 1..Len(frames[1].df_agg) :
          /\ frames[1].df_agg[i].call_gamma # 0
          /\ frames[1].df_agg[i].put_gamma # 0

\* C2: for every strike s of the input, the aggregate has a row for s whose
\* call_gamma is the sum over all call rows at s of -1 * open_interest *
\* gamma * 100, and whose put_gamma is that sum over all put rows at s.
C2_GammaSummedPerStrike ==
    Returned(1) =>
        \A r \in 1..Len(frames[1].df) :
            \E k \in 1..Len(frames[1].df_agg) :
                /\ frames[1].df_agg[k].strike = frames[1].df[r].strike
                /\ frames[1].df_agg[k].call_gamma =
                     ExposureOver(frames[1].df,
                                  RowsOf(frames[1].df, frames[1].df[r].strike, "call"))
                /\ frames[1].df_agg[k].put_gamma =
                     ExposureOver(frames[1].df,
                                  RowsOf(frames[1].df, frames[1].df[r].strike, "put"))

\* a returned call whose table quotes one strike and type twice, both with
\* exposure, and the same strike with the other type as well
C2_Witness ==
    /\ Returned(1)
    /\ \E i, j, k \in 1..Len(frames[1].df) :
          /\ i # j
          /\ frames[1].df[i].strike = frames[1].df[j].strike
          /\ frames[1].df[i].strike = frames[1].df[k].strike
          /\ frames[1].df[i].type = "call" /\ frames[1].df[j].type = "call"
          /\ frames[1].df[k].type = "put"
          /\ \A x \in {i, j, k} : frames[1].df[x].open_interest * frames[1].df[x].gamma # 0

\* the positions the put wall is searched in: the strikes strictly below the
\* price, and only when there is none the strikes at or below it
PutSearch(agg, price) ==
    IF StrictlyBelow(agg, price) # {} THEN StrictlyBelow(agg, price)
    ELSE AtOrBelow(agg, price)

\* C3: when a strike is strictly below the price, put_wall is a strictly
\* below strike of largest |put_gamma| among those; only when none is
\* strictly below it is such a strike among those at or below the price;
\* put_wall_gamma is the signed put_gamma of the chosen strike.
C3_PutWallSelection ==
    Returned(1) /\ PutSearch(frames[1].df_agg, frames[1].current_price) # {} =>
        /\ {"put_wall", "put_wall_gamma"} \subseteq DOMAIN frames[1].levels
        /\ \E i \in PutSearch(frames[1].df_agg, frames[1].current_price) :
              /\ frames[1].levels["put_wall"] = frames[1].df_agg[i].strike
              /\ frames[1].levels["put_wall_gamma"] = frames[1].df_agg[i].put_gamma
              /\ \A j \in PutSearch(frames[1].df_agg, frames[1].current_price) :
                    Abs(frames[1].df_agg[j].put_gamma)
                        <= Abs(frames[1].df_agg[i].put_gamma)

\* a returned call with two strikes strictly below the price of different
\* |put_gamma| and a strike at the price whose |put_gamma| is larger still
C3_Witness ==
    /\ Returned(1)
    /\ \E i, j \in StrictlyBelow(frames[1].df_agg, frames[1].current_price),
          k \in 1..Len(frames[1].df_agg) :
          /\ frames[1].df_agg[k].strike = frames[1].current_price
          /\ Abs(frames[1].df_agg[i].put_gamma) < Abs(frames[1].df_agg[j].put_gamma)
          /\ Abs(frames[1].df_agg[j].put_gamma) < Abs(frames[1].df_agg[k].put_gamma)
          /\ frames[1].levels["put_wall"] = frames[1].df_agg[j].strike

\* the positions the call wall is searched in
CallSearch(agg, price) ==
    IF StrictlyAbove(agg, price) # {} THEN StrictlyAbove(agg, price)
    ELSE AtOrAbove(agg, price)

\* C4: when a strike is strictly above the price, call_wall is a strictly
\* above strike of largest |call_gamma| among those; only when none is
\* strictly above it is such a strike among those at or above the price;
\* call_wall_gamma is the signed call_gamma of the chosen strike.
C4_CallWallSelection ==
    Returned(1) /\ CallSearch(frames[1].df_agg, frames[1].current_price) # {} =>
        /\ {"call_wall", "call_wall_gamma"} \subseteq DOMAIN frames[1].levels
        /\ \E i \in CallSearch(frames[1].df_agg, frames[1].current_price) :
              /\ frames[1].levels["call_wall"] = frames[1].df_agg[i].strike
              /\ frames[1].levels["call_wall_gamma"] = frames[1].df_agg[i].call_gamma
              /\ \A j \in CallSearch(frames[1].df_agg, frames[1].current_price) :
                    Abs(frames[1].df_agg[j].call_gamma)
                        <= Abs(frames[1].df_agg[i].call_gamma)

\* a returned call with two strikes strictly above the price, the higher
\* one of larger |call_gamma| and chosen, and a strike at the price whose
\* |call_gamma| is larger still
C4_Witness ==
    /\ Returned(1)
    /\ \E i, j \in StrictlyAbove(frames[1].df_agg, frames[1].current_price),
          k \in 1..Len(frames[1].df_agg) :
          /\ frames[1].df_agg[k].strike = frames[1].current_price
          /\ i < j
          /\ Abs(frames[1].df_agg[i].call_gamma) < Abs(frames[1].df_agg[j].call_gamma)
          /\ Abs(frames[1].df_agg[j].call_gamma) < Abs(frames[1].df_agg[k].call_gamma)
          /\ frames[1].levels["call_wall"] = frames[1].df_agg[j].strike

\* C5: gamma_flip is present iff some aggregated strike s has
\* 0.99 * price <= s <= 1.01 * price; it is then a strike of the window
\* of smallest |net_gamma| over the window, and gamma_flip_value is the
\* net_gamma of that strike.
C5_GammaFlipSelection ==
    Returned(1) =>
        /\ "gamma_flip" \in DOMAIN frames[1].levels
              <=> InWindow(frames[1].df_agg, frames[1].current_price) # {}
        /\ "gamma_flip_value" \in DOMAIN frames[1].levels
              <=> "gamma_flip" \in DOMAIN frames[1].levels
        /\ "gamma_flip" \in DOMAIN frames[1].levels =>
              \E i \in InWindow(frames[1].df_agg, frames[1].current_price) :
                  /\ frames[1].levels["gamma_flip"] = frames[1].df_agg[i].strike
                  /\ frames[1].levels["gamma_flip_value"] = frames[1].df_agg[i].net_gamma
                  /\ \A j \in InWindow(frames[1].df_agg, frames[1].current_price) :
                        Abs(frames[1].df_agg[i].net_gamma)
                            <= Abs(frames[1].df_agg[j].net_gamma)

\* a returned call with a gamma flip and a strike outside the window whose
\* |net_gamma| is smaller than the flip's
C5_Witness ==
    /\ Returned(1)
    /\ "gamma_flip" \in DOMAIN frames[1].levels
    /\ \E j \in 1..Len(frames[1].df_agg) :
          /\ j \notin InWindow(frames[1].df_agg, frames[1].current_price)
          /\ Abs(frames[1].df_agg[j].net_gamma)
                < Abs(frames[1].levels["gamma_flip_value"])

\* C6: the regime a call returns is "neutral" iff gamma_flip is absent
\* from the levels that call returns.
C6_NeutralIffNoFlip ==
    Returned(1) =>
        (frames[1].regime = "neutral"
            <=> "gamma_flip" \notin DOMAIN frames[1].levels)

\* a call returns "neutral" and levels without a gamma flip for a table
\* with rows, on an engine whose earlier call found a regime
C6_Witness ==
    /\ Returned(1)
    /\ frames[1].df # EmptyDf
    /\ "gamma_flip" \notin DOMAIN frames[1].levels
    /\ frames[1].regime = "neutral"
    /\ self_regime # "neutral"

\* C7: when gamma_flip is present in the levels a call returns, the regime
\* it returns is "short_gamma" if the price is above that gamma_flip and
\* "long_gamma" otherwise, whatever the engine held before.
C7_RegimeFromPriceAndFlip ==
    Returned(1) /\ "gamma_flip" \in DOMAIN frames[1].levels =>
        frames[1].regime =
            IF frames[1].current_price > frames[1].levels["gamma_flip"]
            THEN "short_gamma" ELSE "long_gamma"

\* a call at a price equal to its gamma flip returns "long_gamma"
C7_Witness ==
    /\ Returned(1)
    /\ "gamma_flip" \in DOMAIN frames[1].levels
    /\ frames[1].current_price = frames[1].levels["gamma_flip"]
    /\ frames[1].regime = "long_gamma"

\* C8: when put_wall and call_wall are both present,
\* put_wall <= price <= call_wall.
C8_WallsBracketPrice ==
    Returned(1) /\ {"put_wall", "call_wall"} \subseteq DOMAIN frames[1].levels =>
        /\ frames[1].levels["put_wall"] <= frames[1].current_price
        /\ frames[1].current_price <= frames[1].levels["call_wall"]

\* a returned call with strikes on both sides of the price and both walls
C8_Witness ==
    /\ Returned(1)
    /\ {"put_wall", "call_wall"} \subseteq DOMAIN frames[1].levels
    /\ frames[1].levels["put_wall"] < frames[1].current_price
    /\ frames[1].current_price < frames[1].levels["call_wall"]
    /\ \E i \in 1..Len(frames[1].df_agg) :
          frames[1].df_agg[i].strike = frames[1].current_price

\* what process_options_data(df, current_price) returns on a fresh engine
FreshReturn(df, current_price) ==
    LET df_agg == aggregate_by_strike(calculate_dealer_gamma(df))
        stored == identify_key_levels_self(EmptyLevels, df_agg, current_price)
    IN  <<df_agg, identify_key_levels(df_agg, current_price),
          determine_regime(stored, df_agg, current_price)>>

\* C9: a call returns the aggregate, levels and regime that the same input
\* gives on a fresh engine, whatever calls the engine served before.
C9_HistoryIndependent ==
    Returned(1) =>
        <<frames[1].df_agg, frames[1].levels, frames[1].regime>>
            = FreshReturn(frames[1].df, frames[1].current_price)

\* a call with an empty table has returned on an engine that still holds
\* the gamma flip and regime of an earlier call
C9_Witness ==
    /\ Returned(1)
    /\ frames[1].df = EmptyDf
    /\ "gamma_flip" \in DOMAIN self_levels
    /\ self_regime = "short_gamma"

\* C10: each of two concurrent invocations returns the levels and the
\* regime it returns when run alone.
C10_ConcurrentAsAlone ==
    \A t \in Threads :
        Returned(t) =>
            <<frames[t].levels, frames[t].regime>>
                = <<FreshReturn(frames[t].df, frames[t].current_price)[2],
                    FreshReturn(frames[t].df, frames[t].current_price)[3]>>

\* df with the rows at positions i and j exchanged
SwapRows(df, i, j) ==
    [k \in 1..Len(df) |-> IF k = i THEN df[j] ELSE IF k = j THEN df[i] ELSE df[k]]

\* the levels process_options_data finds for df at current_price
FreshLevels(df, current_price) ==
    identify_key_levels(aggregate_by_strike(calculate_dealer_gamma(df)),
                        current_price)

C13_OneRowPerStrikeAscending ==
    Returned(1) =>
        /\ {frames[1].df_agg[k].strike : k \in 1..Len(frames[1].df_agg)}
              = {frames[1].df[i].strike : i \in 1..Len(frames[1].df)}
        /\ \A k \in 1..(Len(frames[1].df_agg) - 1) :
              frames[1].df_agg[k].strike < frames[1].df_agg[k + 1].strike

\* a returned call whose table lists a strike twice and a lower strike
\* after a higher one
C13_Witness ==
    /\ Returned(1)
    /\ Len(frames[1].df_agg) = 2
    /\ Len(frames[1].df) = 3
    /\ frames[1].df[1].strike > frames[1].df[2].strike
    /\ frames[1].df[3].strike = frames[1].df[1].strike

\* the strikes of an aggregate
StrikesOf(agg) == {agg[k].strike : k \in 1..Len(agg)}

\* C16: put_wall is absent when no strike is at or below the price,
\* call_wall when none is at or above it, gamma_flip when the window is
\* empty, and every put_wall, call_wall and gamma_flip present is the
\* strike of a row of the aggregate.
C16_NoFabricatedLevels ==
    Returned(1) =>
        /\ AtOrBelow(frames[1].df_agg, frames[1].current_price) = {}
              => DOMAIN frames[1].levels \cap {"put_wall", "put_wall_gamma"} = {}
        /\ AtOrAbove(frames[1].df_agg, frames[1].current_price) = {}
              => DOMAIN frames[1].levels \cap {"call_wall", "call_wall_gamma"} = {}
        /\ InWindow(frames[1].df_agg, frames[1].current_price) = {}
              => DOMAIN frames[1].levels \cap {"gamma_flip", "gamma_flip_value"} = {}
        /\ \A key \in DOMAIN frames[1].levels \cap {"put_wall", "call_wall", "gamma_flip"} :
              frames[1].levels[key] \in StrikesOf(frames[1].df_agg)
        /\ DOMAIN frames[1].levels \subseteq
              {"put_wall", "put_wall_gamma", "call_wall", "call_wall_gamma",
               "gamma_flip", "gamma_flip_value"}

\* a returned call on a table with rows where only the call wall is found
C16_Witness ==
    /\ Returned(1)
    /\ frames[1].df_agg # EmptyDf
    /\ DOMAIN frames[1].levels = {"call_wall", "call_wall_gamma"}

Min(a, b) == IF a <= b THEN a ELSE b

\* row a ranks before row b: higher score, or the same score and a lower
\* strike
RanksBefore(a, b) ==
    \/ a.score > b.score
    \/ a.score = b.score /\ a.strike < b.strike

\* the row of the aggregate with its score
Scored(r) ==
    [strike |-> r.strike, dealer_gamma |-> r.dealer_gamma,
     call_gamma |-> r.call_gamma, put_gamma |-> r.put_gamma,
     volume |-> r.volume, open_interest |-> r.open_interest,
     net_gamma |-> r.net_gamma, score |-> Abs(r.net_gamma) * r.volume]

\* C12: with top_levels_count >= 0 the ranking has min(top_levels_count,
\* number of strikes) rows, each a row of the aggregate with
\* score = |net_gamma| * volume, in the order score descending then strike
\* ascending, and every row left out ranks after every row kept; with
\* top_levels_count = 0 it is empty and the call returns.
C12_RankingTopK ==
    frames[1].pc \in {"returned", "raised"} /\ top_levels_count >= 0 =>
        /\ frames[1].pc = "returned"
        /\ Len(frames[1].top_levels)
              = Min(top_levels_count, Len(frames[1].df_agg))
        /\ \A i \in 1..Len(frames[1].top_levels) :
              \E k \in 1..Len(frames[1].df_agg) :
                  frames[1].top_levels[i] = Scored(frames[1].df_agg[k])
        /\ \A i, j \in 1..Len(frames[1].top_levels) :
              i < j => RanksBefore(frames[1].top_levels[i], frames[1].top_levels[j])
        /\ \A k \in 1..Len(frames[1].df_agg) :
              \/ \E i \in 1..Len(frames[1].top_levels) :
                    frames[1].top_levels[i] = Scored(frames[1].df_agg[k])
              \/ \A i \in 1..Len(frames[1].top_levels) :
                    RanksBefore(frames[1].top_levels[i], Scored(frames[1].df_agg[k]))

\* a returned ranking of two out of three strikes, where the second row
\* kept and the row left out have the same score
C12_Witness ==
    /\ Returned(1)
    /\ top_levels_count = 2
    /\ Len(frames[1].df_agg) = 3
    /\ Len(frames[1].top_levels) = 2
    /\ frames[1].top_levels[1].score > frames[1].top_levels[2].score
    /\ \E k \in 1..3 :
          /\ Scored(frames[1].df_agg[k]).score = frames[1].top_levels[2].score
          /\ frames[1].df_agg[k].strike > frames[1].top_levels[2].strike
          /\ frames[1].df_agg[k].strike < frames[1].top_levels[1].strike

\* C17: a call with a non-positive price or under a negative
\* top_levels_count ends in an error and returns nothing.
C17_InvalidConfigRejected ==
    frames[1].current_price <= 0 \/ top_levels_count < 0 =>
        frames[1].pc # "returned"

RECURSIVE ColumnOver(_, _, _)
\* the sum of column col over the rows of df at positions S
ColumnOver(df, S, col) ==
    IF S = {} THEN 0
    ELSE LET i == CHOOSE x \in S : TRUE
         IN  df[i][col] + ColumnOver(df, S \ {i}, col)

\* C19: for every strike s of the aggregate, volume is the sum of volume
\* over all rows of the input at s, calls and puts together, and
\* open_interest the sum of open_interest over those rows.
C19_VolumeAndOpenInterestSummed ==
    Returned(1) =>
        \A k \in 1..Len(frames[1].df_agg) :
            LET rows == {i \in 1..Len(frames[1].df) :
                            frames[1].df[i].strike = frames[1].df_agg[k].strike}
            IN  /\ rows # {}
                /\ frames[1].df_agg[k].volume
                      = ColumnOver(frames[1].df, rows, "volume")
                /\ frames[1].df_agg[k].open_interest
                      = ColumnOver(frames[1].df, rows, "open_interest")

\* a returned call whose table has a strike with a call of volume 1, a
\* put of volume 2 and a third row
C19_Witness ==
    /\ Returned(1)
    /\ Len(frames[1].df) = 3
    /\ Len(frames[1].df_agg) = 1
    /\ frames[1].df[1].type = "call" /\ frames[1].df[1].volume = 1
    /\ frames[1].df[2].type = "put" /\ frames[1].df[2].volume = 2
    /\ frames[1].df_agg[1].volume > 3

\* the value of a field of an input row, 0 when the field is absent
ValueOrZero(row, col) ==
    IF col \in DOMAIN row /\ row[col] # NaN THEN row[col] ELSE 0

RECURSIVE ZeroFilledOver(_, _, _, _)
\* over the rows of df at positions S: the exposure sum of the rows of
\* the types tys (col = "dealer_gamma"), or the sum of column col, absent
\* fields counted as 0
ZeroFilledOver(df, S, col, tys) ==
    IF S = {} THEN 0
    ELSE LET i == CHOOSE x \in S : TRUE
             v == IF col # "dealer_gamma" THEN ValueOrZero(df[i], col)
                  ELSE IF df[i].type \notin tys THEN 0
                  ELSE (-ValueOrZero(df[i], "open_interest"))
                           * ValueOrZero(df[i], "gamma") * 100
         IN  v + ZeroFilledOver(df, S \ {i}, col, tys)

\* the aggregate is the aggregate of the table with every absent field
\* counted as 0
AggregatesZeroFilled(t) ==
    /\ StrikesOf(frames[t].df_agg) = StrikesOf(frames[t].df)
    /\ \A k \in 1..Len(frames[t].df_agg) :
          LET rows == {i \in 1..Len(frames[t].df) :
                          frames[t].df[i].strike = frames[t].df_agg[k].strike}
              agg == frames[t].df_agg[k]
          IN  /\ agg.dealer_gamma
                    = ZeroFilledOver(frames[t].df, rows, "dealer_gamma", Types)
              /\ agg.call_gamma
                    = ZeroFilledOver(frames[t].df, rows, "dealer_gamma", {"call"})
              /\ agg.put_gamma
                    = ZeroFilledOver(frames[t].df, rows, "dealer_gamma", {"put"})
              /\ agg.volume = ZeroFilledOver(frames[t].df, rows, "volume", Types)
              /\ agg.open_interest
                    = ZeroFilledOver(frames[t].df, rows, "open_interest", Types)

\* C14: a row whose gamma, open_interest or volume is absent counts as 0
\* in that field: the call returns, never raises, and the aggregate holds
\* the sums of the table with absent fields as 0, also when no row has a
\* gamma field.
C14_AbsentTreatedAsZero ==
    frames[1].pc \in {"returned", "raised"} =>
        /\ frames[1].pc = "returned"
        /\ AggregatesZeroFilled(1)

\* the part of C14 that the code keeps: when the table has the gamma
\* column, absent cells count as 0 and nothing raises
C14_AbsentCellsAsZero ==
    /\ frames[1].pc \in {"returned", "raised"}
    /\ frames[1].df # EmptyDf
    /\ "gamma" \in DOMAIN frames[1].df[1]
    => /\ frames[1].pc = "returned"
       /\ AggregatesZeroFilled(1)

StageAfter ==
    [calculate_dealer_gamma |-> {"aggregate_by_strike"},
     aggregate_by_strike |-> {"identify_key_levels", "raised"},
     identify_key_levels |-> {"rank_levels"},
     rank_levels |-> {"determine_regime"},
     determine_regime |-> {"returned"}]

ReturnedConditions(ret) == {ret[k] : k \in 1..Len(ret)}

\* C20: a condition that check_all_conditions returns is marked triggered
\* and logged once in that call; while it stays marked (no reset_conditions
\* and no setup_levels in between) no later call returns it or logs it,
\* whatever the price.
C20_AlertAtMostOnce ==
    [][/\ \A k \in 1..Len(alert_ret') :
             /\ alert_ret'[k] \in 1..Len(conditions')
             /\ conditions'[alert_ret'[k]].triggered
             /\ \A j \in 1..Len(alert_ret') : j # k => alert_ret'[j] # alert_ret'[k]
       /\ Len(alert_history') = Len(alert_history) + Len(alert_ret')
       /\ \A k \in 1..Len(alert_ret') :
             alert_history'[Len(alert_history) + k].level_name
                 = conditions'[alert_ret'[k]].level_name
       /\ \A i \in 1..Len(conditions) :
             /\ conditions[i].triggered
             /\ i <= Len(conditions') /\ conditions'[i].triggered
             => i \notin ReturnedConditions(alert_ret')]_vars

\* a condition is marked triggered, the last call of check_all_conditions
\* came with a price, volume and velocity that meet it, and the call
\* returned the other condition and not this one
C20_Witness ==
    /\ Len(conditions) = 2
    /\ conditions[1].triggered /\ conditions[2].triggered
    /\ alert_ret = <<2>>
    /\ Len(alert_history) = 2
    /\ alert_history[1].level_name = "put_wall"
    /\ alert_history[2].level_name = "call_wall"
    /\ check(conditions[1], alert_history[2].current_price,
             alert_history[2].volume, alert_history[2].velocity)

\* C28: after a call of process_options_data has returned, engine.levels
\* is the level set the call returned and engine.regime the regime it
\* returned, also when the level set is empty or the regime "neutral".
C28_AttributesAreLastResult ==
    Returned(1) =>
        /\ self_levels = frames[1].ret[2]
        /\ self_regime = frames[1].ret[3]

\* C21: check returns True exactly when the distance of the price from
\* the level is at most the threshold, the volume is not below a volume
\* threshold when both are given, and the velocity, when given, does not
\* lead away from the level; the call leaves the condition, its triggered
\* flag included, as it was.
C21_CheckDecision ==
    [][check_call' # check_call =>
         /\ conditions' = conditions
         /\ check_call'.ret <=>
              /\ Abs(check_call'.current_es_price
                        - conditions[check_call'.i].es_level)
                    <= conditions[check_call'.i].distance_threshold
              /\ ~ /\ conditions[check_call'.i].volume_threshold # None
                   /\ check_call'.current_volume # None
                   /\ check_call'.current_volume
                         < conditions[check_call'.i].volume_threshold
              /\ ~ /\ check_call'.velocity # None
                   /\ \/ /\ check_call'.current_es_price
                               < conditions[check_call'.i].es_level
                         /\ check_call'.velocity < 0
                      \/ /\ check_call'.current_es_price
                               > conditions[check_call'.i].es_level
                         /\ check_call'.velocity > 0]_vars

\* check has returned True for a triggered condition at a price exactly
\* the threshold below its level, with a volume that meets the volume
\* threshold and a velocity towards the level
C21_Witness ==
    /\ check_call.op = "check"
    /\ check_call.ret
    /\ conditions[check_call.i].triggered
    /\ conditions[check_call.i].es_level - check_call.current_es_price
          = conditions[check_call.i].distance_threshold
    /\ conditions[check_call.i].volume_threshold # None
    /\ check_call.current_volume = conditions[check_call.i].volume_threshold
    /\ check_call.velocity > 0

\* an entry of converted levels that has an 'es' value
HasEs(entry) == "es" \in DOMAIN entry.level_data

\* C27: after setup_levels(converted) the conditions are one untriggered
\* condition per entry of converted that has an 'es' value, in entry
\* order, with that value as es_level, and nothing else; alert_history is
\* as it was.
C27_SetupReplacesConditions ==
    [][alert_call'.op = "setup_levels" =>
         /\ Len(conditions')
               = Len(SelectSeq(alert_call'.converted_levels, HasEs))
         /\ \A k \in 1..Len(conditions') :
               /\ conditions'[k].level_name
                     = SelectSeq(alert_call'.converted_levels, HasEs)[k].level_name
               /\ conditions'[k].es_level
                     = SelectSeq(alert_call'.converted_levels, HasEs)[k].level_data.es
               /\ ~conditions'[k].triggered
               /\ conditions'[k].trigger_time = None
         /\ alert_history' = alert_history]_vars

\* setup_levels has run with an entry without 'es' and a call wall at 204,
\* after an earlier setup whose call wall at 202 alerted
C27_Witness ==
    /\ alert_call.op = "setup_levels"
    /\ Len(conditions) = 1
    /\ conditions[1].level_name = "call_wall"
    /\ conditions[1].es_level = 204
    /\ \E h \in 1..Len(alert_history) :
          /\ alert_history[h].level_name = "call_wall"
          /\ alert_history[h].es_level = 202

\* the positions of the entries of alert_history that a step appended
NewEntries == (Len(alert_history) + 1)..Len(alert_history')

\* C30: every condition a call of check_all_conditions returns has exactly
\* one new entry of alert_history with its level_name and es_level, and
\* the call appends nothing else; alert_history never loses an entry; and
\* the triggered_count of get_alert_summary is never above its
\* alert_history_count.
C30_AlertBookkeeping ==
    /\ [](get_alert_summary(conditions, alert_history).triggered_count
            <= get_alert_summary(conditions, alert_history).alert_history_count)
    /\ [][/\ Len(alert_history') >= Len(alert_history)
          /\ SubSeq(alert_history', 1, Len(alert_history)) = alert_history
          /\ Cardinality(NewEntries) = Len(alert_ret')
          /\ \A k \in 1..Len(alert_ret') :
                Cardinality({h \in NewEntries :
                    /\ alert_history'[h].level_name
                          = conditions'[alert_ret'[k]].level_name
                    /\ alert_history'[h].es_level
                          = conditions'[alert_ret'[k]].es_level}) = 1]_vars

\* a call of check_all_conditions has returned both conditions at once,
\* after an earlier alert and a reset: two conditions are triggered and
\* the history holds three entries
C30_Witness ==
    /\ alert_call.op = "check_all_conditions"
    /\ alert_ret = <<1, 2>>
    /\ get_alert_summary(conditions, alert_history).triggered_count = 2
    /\ get_alert_summary(conditions, alert_history).alert_history_count = 3

\* a spread is available to the converter: in memory, or in a cache file
\* of the current day
SpreadAvailable ==
    \/ spread # None
    \/ spread_cache_file # NoFile /\ spread_cache_file.date = today

\* C22: with a spread available, convert_levels_dict returns one entry per
\* numeric level v, in order, with spx = v, es = v + spread and that same
\* spread, and convert_spx_level_to_es returns level + spread; with none
\* available it returns an empty dict and convert_spx_level_to_es None.
C22_ConversionAddsOneSpread ==
    [][today' = today =>
         /\ converter_ret'.op = "convert_levels_dict" =>
               IF SpreadAvailable
               THEN /\ Len(converter_ret'.ret)
                          = Len(SelectSeq(converter_ret'.spx_levels, Present))
                             - Cardinality({i \in 1..Len(converter_ret'.spx_levels) :
                                   converter_ret'.spx_levels[i].value = NonNumeric})
                    /\ \A k \in 1..Len(converter_ret'.ret) :
                          /\ converter_ret'.ret[k].level_data.spread = spread'
                          /\ converter_ret'.ret[k].level_data.es
                                - converter_ret'.ret[k].level_data.spx = spread'
                          /\ \E i \in 1..Len(converter_ret'.spx_levels) :
                                /\ converter_ret'.spx_levels[i].level_name
                                      = converter_ret'.ret[k].level_name
                                /\ converter_ret'.spx_levels[i].value
                                      = converter_ret'.ret[k].level_data.spx
                    /\ \A j, k \in 1..Len(converter_ret'.ret) :
                          j < k => \E a, b \in 1..Len(converter_ret'.spx_levels) :
                                      /\ a < b
                                      /\ converter_ret'.spx_levels[a].level_name
                                            = converter_ret'.ret[j].level_name
                                      /\ converter_ret'.spx_levels[b].level_name
                                            = converter_ret'.ret[k].level_name
               ELSE converter_ret'.ret = <<>>
         /\ converter_ret'.op = "convert_spx_level_to_es" =>
               IF SpreadAvailable
               THEN converter_ret'.ret = converter_ret'.spx_level + spread'
               ELSE converter_ret'.ret = None]_vars

\* convert_levels_dict has converted two numeric levels with a spread of 2
C22_Witness ==
    /\ converter_ret.op = "convert_levels_dict"
    /\ Len(converter_ret.ret) = 2
    /\ converter_ret.ret[1].level_data.es = converter_ret.ret[1].level_data.spx + 2
    /\ converter_ret.ret[2].level_data.es = converter_ret.ret[2].level_data.spx + 2
    /\ spread_timestamp = today

\* C23: get_spread returns a spread only if that spread was calculated on
\* the current day.
C23_SpreadOfToday ==
    [][/\ today' = today
       /\ converter_ret'.op = "get_spread"
       /\ converter_ret'.ret # None
       => spread_timestamp' = today']_vars

\* the keys the one-shot analysis keeps for conversion
PriceLevelNames == {"put_wall", "call_wall", "gamma_flip"}

\* C24: every condition job_activate_alerts sets up is named put_wall,
\* call_wall or gamma_flip and its es_level is that converted level's price
\* plus the spread; no gamma magnitude becomes a monitored level.
C24_OnlyPriceLevelsMonitored ==
    [][job_log'.op = "job_activate_alerts" /\ job_log'.outcome = "done" =>
         \A i \in 1..Len(conditions') :
            /\ conditions'[i].level_name \in PriceLevelNames
            /\ \E k \in 1..Len(current_data["converted_levels"]) :
                  LET entry == current_data["converted_levels"][k]
                  IN  /\ entry.level_name = conditions'[i].level_name
                      /\ conditions'[i].es_level
                            = entry.level_data.spx + entry.level_data.spread]_vars

\* C25: when job_save_daily_log has run, no alert condition is triggered
\* and none has a trigger time.
C25_DailyLogResetsConditions ==
    [][job_log'.op = "job_save_daily_log" =>
         \A i \in 1..Len(conditions') :
            /\ ~conditions'[i].triggered
            /\ conditions'[i].trigger_time = None]_vars

\* the keys a step adds to current_data
KeysAdded == DOMAIN current_data' \ DOMAIN current_data

\* C26: job_calculate_levels gets past its test, and the engine's attributes
\* change, only with options_df and spx_price in current_data, keys that
\* only job_load_options adds; job_activate_alerts rebuilds the conditions
\* only with converted_levels in current_data, a key that only
\* job_calculate_levels adds; a job that does not reach its end leaves
\* current_data and the conditions as they were.
C26_JobGating ==
    [][/\ job_log'.op = "job_load_options" /\ job_log'.outcome # "done" =>
             current_data' = current_data /\ conditions' = conditions
       /\ job_log'.op = "job_calculate_levels" =>
             /\ job_log'.outcome # "no_data" =>
                   {"options_df", "spx_price"} \subseteq DOMAIN current_data
             /\ self_levels' # self_levels \/ self_regime' # self_regime =>
                   {"options_df", "spx_price"} \subseteq DOMAIN current_data
             /\ job_log'.outcome # "done" =>
                   current_data' = current_data /\ conditions' = conditions
       /\ job_log'.op = "job_activate_alerts" =>
             /\ job_log'.outcome = "done" \/ conditions' # conditions =>
                   "converted_levels" \in DOMAIN current_data
             /\ job_log'.outcome # "done" =>
                   current_data' = current_data /\ conditions' = conditions
       /\ KeysAdded \cap {"options_df", "spx_price"} # {} =>
             job_log'.op = "job_load_options"
       /\ KeysAdded \cap {"converted_levels", "regime"} # {} =>
             job_log'.op = "job_calculate_levels"]_vars

\* job_calculate_levels has failed in the engine on a table without the
\* gamma column, after an earlier run had stored converted levels and the
\* alerts were activated
C26_Witness ==
    /\ job_log = [op |-> "job_calculate_levels", outcome |-> "raised"]
    /\ "converted_levels" \in DOMAIN current_data
    /\ conditions # <<>>

\* C29: on a table with rows the serverless calculate_gamma_levels and
\* process_options_data return the same put_wall, call_wall and gamma_flip
\* (the same keys, the same strikes) and the same regime.
C29_ServerlessMatchesEngine ==
    Returned(1) /\ api_ret.op = "calculate_gamma_levels" =>
        /\ \A k \in PriceLevelNames :
              /\ k \in DOMAIN frames[1].ret[2] <=> k \in DOMAIN api_ret.ret[1]
              /\ k \in DOMAIN frames[1].ret[2] =>
                    frames[1].ret[2][k] = api_ret.ret[1][k]
        /\ frames[1].ret[3] = api_ret.ret[2]

====
